---- MODULE Spec2Model ----
(***************************************************************************)
(* Model of turboseti_stream/doppler_finder.py: the DataLoader class, the  *)
(* DopplerFinder constructor (geometry derivation and drift-index row      *)
(* selection) and the find_ET / find_ET_from_file / _find_ET_common call   *)
(* sequence with its .log and .dat output artifacts.                       *)
(***************************************************************************)
EXTENDS Integers, Sequences, FiniteSets, TLC

\* ---------------------------------------------------------------- bounds
MaxInts == 5        \* n_ints_in_file ranges over 1..MaxInts
MaxFine == 2        \* n_fine_chans ranges over 1..MaxFine
MaxCoarse == 2      \* n_coarse_chan ranges over 1..MaxCoarse
MaxK == 2           \* drift_indexes_array_<k>.txt may be shipped for k in 0..MaxK
MaxMatrix == 2      \* matrices a Gnu Radio block may deliver
MaxPath == 1        \* synthetic spectra files 1..MaxPath exist; path 0 does not
MaxCalls == 2       \* find_ET / find_ET_from_file invocations per session
MaxConstructs == 2  \* DopplerFinder constructions per run

VARIABLES
    pc,                     \* position: "new", "failed", "idle", "remove", "preamble", "search", "completion"
    args,                   \* arguments of the latest DopplerFinder(...) call
    error,                  \* exception raised by the latest constructor / call ("none" if it returned)
    tableKs,                \* the k for which turbo_seti ships drift_indexes_array_<k>.txt
    header,                 \* self.header (NAXIS1 only)
    find_doppler_instance,  \* self.find_doppler_instance (append_output, n_coarse_chan)
    data_dict,              \* self.data_dict
    dataloader,             \* self.dataloader
    readK,                  \* the k of the tables genfromtxt read during the latest construction
    prev,                   \* (tsteps_valid, vector) of the previous successful construction
    constructs,             \* number of constructions so far
    path_log,               \* the file <out_dir>/<wfilename>.log
    path_dat,               \* the file <out_dir>/<wfilename>.dat
    callNo,                 \* number of find_ET / find_ET_from_file calls started
    datAtEntry,             \* path_dat as it was when the current call started
    callLoaded,             \* the current call's load has completed
    searchCount,            \* search_coarse_channel invocations of the current call
    searchInput,            \* spectra the latest search_coarse_channel got from dataloader.get()
    everLoaded,             \* some load has completed on self.dataloader
    lastDelivered           \* the matrix delivered by the most recent completed load

vars == <<pc, args, error, tableKs, header, find_doppler_instance, data_dict,
          dataloader, readK, prev, constructs, path_log, path_dat, callNo,
          datAtEntry, callLoaded, searchCount, searchInput, everLoaded,
          lastDelivered>>

\* ------------------------------------------------------- integer helpers
Min(a, b) == IF a <= b THEN a ELSE b

RECURSIVE Pow2(_)
\* math.pow(2, k) for an integer k >= 0
Pow2(k) == IF k <= 0 THEN 1 ELSE 2 * Pow2(k - 1)

RECURSIVE FloorLog2(_)
\* int(np.log2(n)) for an integer n >= 1
FloorLog2(n) == IF n <= 1 THEN 0 ELSE 1 + FloorLog2(n \div 2)

CeilAsFloor(n) == FloorLog2(n)
\* math.ceil(np.log2(n)) for an integer n >= 1
CeilLog2(n) == IF Pow2(FloorLog2(n)) = n THEN FloorLog2(n) ELSE FloorLog2(n) + 1

TstepsNextPow2(n) == Pow2(FloorLog2(n) + 1)
\* tsteps = int(math.pow(2, math.ceil(np.log2(math.floor(n_ints_in_file)))))
Tsteps(n) == Pow2(CeilLog2(n))

\* ------------------------------------------------------------ data_dict
NoneDict == [tsteps_valid |-> 0, tsteps |-> 0, tdwidth |-> 0, fftlen |-> 0,
             shoulder_size |-> 0]

\* shoulder_size = 0
shoulder_size == 0

\* self.data_dict = Map({...}); the local fftlen is n_fine_chans
DataDict(n_fine_chans, n_ints_in_file, n_coarse_chan) ==
    LET fftlen == n_fine_chans
        tsteps_valid == n_ints_in_file
        tsteps == Tsteps(n_ints_in_file)
    IN [tsteps_valid |-> tsteps_valid,
        tsteps |-> tsteps,
        tdwidth |-> fftlen + shoulder_size * tsteps,
        fftlen |-> n_fine_chans \div n_coarse_chan,
        shoulder_size |-> shoulder_size]

\* ---------------------------------------------------- drift-index tables
\* dia_num = int(np.log2(self.data_dict.tsteps))
DiaNum(dd) == FloorLog2(dd.tsteps)

\* ts2 = int(self.data_dict.tsteps / 2)
Ts2(dd) == dd.tsteps \div 2

\* self.data_dict.tsteps_valid - 1 - ts2
RowOffset(dd) == dd.tsteps_valid - 1 - Ts2(dd)

\* drift_indexes_array_<k>.txt holds tsteps/2 rows of tsteps columns
TableRows(k) == Pow2(k) \div 2
TableCols(k) == Pow2(k)

\* np.genfromtxt(file_path, delimiter=' ', dtype=int): every cell is given a
\* distinct value so that the row and the columns selected are observable
GenFromTxt(k) ==
    [r \in 1..TableRows(k) |-> [c \in 1..TableCols(k) |-> (r - 1) * TableCols(k) + c]]

IsFileAlways(k) == TRUE
\* os.path.isfile(file_path)
IsFile(k) == k \in tableKs

\* di_array[row, ...] is an IndexError when di_array is not two-dimensional
\* (a file of at most one row) or when row is outside -rows..rows-1
RowInRange(k, off) ==
    /\ TableRows(k) >= 2
    /\ off < TableRows(k)
    /\ off >= -TableRows(k)

\* a negative row counts from the end
PyRow(k, off) == IF off < 0 THEN off + TableRows(k) ELSE off

SliceToTsteps(di_array, k, dd) ==
    LET row == di_array[PyRow(k, RowOffset(dd)) + 1]
    IN SubSeq(row, 1, Min(dd.tsteps, Len(row)))
\* di_array[(tsteps_valid - 1 - ts2), 0:tsteps_valid]
SelectRow(di_array, k, dd) ==
    LET row == di_array[PyRow(k, RowOffset(dd)) + 1]
    IN SubSeq(row, 1, Min(dd.tsteps_valid, Len(row)))

\* -------------------------------------------------------------- spectra
\* self.spectra = [0, 0]
Placeholder == [kind |-> "list", id |-> 0]
NoInput == [kind |-> "none", id |-> 0]
Matrix(m) == [kind |-> "matrix", id |-> m]

\* stg.Frame(spectra_file_path).data : file p holds matrix MaxMatrix + p
FrameData(p) == Matrix(MaxMatrix + p)
\* stg.Frame(spectra_file_path) raises for a path that cannot be opened
FrameOpens(p) == p \in 1..MaxPath

\* ----------------------------------------------------------- DataLoader
NoLoader == [made |-> FALSE, data_obj |-> NoneDict, spectra |-> NoInput,
             drift_indices |-> <<>>]

\* DataLoader.__init__
NewDataLoader(data_obj, drift_indices) ==
    [made |-> TRUE, data_obj |-> data_obj, spectra |-> Placeholder,
     drift_indices |-> drift_indices]

LoadKeepsOld(dl, spectra) == dl
\* DataLoader.load
DLLoad(dl, spectra) == [dl EXCEPT !.spectra = spectra]

LoadFileKeepsOld(dl, p) == dl
\* DataLoader.load_file (on a path that opens)
DLLoadFile(dl, p) == [dl EXCEPT !.spectra = FrameData(p)]

\* DataLoader.get
DLGet(dl) == <<dl.data_obj, dl.spectra, dl.drift_indices>>

\* ---------------------------------------------------------------- files
Absent == [exists |-> FALSE, writer |-> 0, complete |-> FALSE]
\* an artifact left at the path before the program started
PreExisting == [exists |-> TRUE, writer |-> 0, complete |-> TRUE]

NoArgs == [n_fine_chans |-> 0, n_ints_in_file |-> 0, n_coarse_chan |-> 0,
           append_output |-> FALSE]

\* DopplerFinder.__init__ from the drift-index lookup on: where the constructor
\* ends, what it raised, the tables it read and the DataLoader it made
Resolve(dd) ==
    LET k == DiaNum(dd)
    IN IF ~IsFile(k)                                   \* assert os.path.isfile(file_path)
       THEN [pc |-> "failed", error |-> "AssertionError", readK |-> {},
             dataloader |-> NoLoader]
       ELSE IF ~RowInRange(k, RowOffset(dd))           \* di_array[...] raises
       THEN [pc |-> "failed", error |-> "IndexError", readK |-> {k},
             dataloader |-> NoLoader]
       ELSE [pc |-> "idle", error |-> "none", readK |-> {k},
             dataloader |-> NewDataLoader(dd, SelectRow(GenFromTxt(k), k, dd))]

\* Before any DopplerFinder is constructed
Init ==
    /\ pc = "new"
    /\ args = NoArgs
    /\ error = "none"
    /\ tableKs \in SUBSET (0..MaxK)
    /\ header = [NAXIS1 |-> 0]
    /\ find_doppler_instance = [append_output |-> FALSE, n_coarse_chan |-> 0]
    /\ data_dict = NoneDict
    /\ dataloader = NoLoader
    /\ readK = {}
    /\ prev = [n |-> 0, vector |-> <<>>]
    /\ constructs = 0
    /\ path_log = Absent
    /\ path_dat = Absent
    /\ callNo = 0
    /\ datAtEntry = Absent
    /\ callLoaded = FALSE
    /\ searchCount = 0
    /\ searchInput = NoInput
    /\ everLoaded = FALSE
    /\ lastDelivered = NoInput

callVars == <<callNo, datAtEntry, callLoaded, searchCount, searchInput>>
fileVars == <<path_log, path_dat>>
objVars == <<args, header, find_doppler_instance, data_dict, readK, prev, constructs>>

\* DopplerFinder.__init__
Construct(n_fine_chans, n_ints_in_file, n_coarse_chan, append_output) ==
    /\ pc \in {"new", "failed", "idle"}
    /\ constructs < MaxConstructs
    /\ constructs' = constructs + 1
    /\ args' = [n_fine_chans |-> n_fine_chans, n_ints_in_file |-> n_ints_in_file,
                n_coarse_chan |-> n_coarse_chan, append_output |-> append_output]
    /\ header' = [NAXIS1 |-> n_fine_chans]
    /\ find_doppler_instance' = [append_output |-> append_output,
                                 n_coarse_chan |-> n_coarse_chan]
    /\ data_dict' = DataDict(n_fine_chans, n_ints_in_file, n_coarse_chan)
    /\ prev' = IF dataloader.made
               THEN [n |-> data_dict.tsteps_valid, vector |-> dataloader.drift_indices]
               ELSE prev
    /\ pc' = Resolve(data_dict').pc
    /\ error' = Resolve(data_dict').error
    /\ readK' = Resolve(data_dict').readK
    /\ dataloader' = Resolve(data_dict').dataloader
    /\ everLoaded' = FALSE
    /\ lastDelivered' = NoInput
    /\ UNCHANGED <<tableKs, fileVars, callVars>>

\* A session: a DopplerFinder whose construction returned, with whatever an
\* earlier run left at the output paths
InitSession ==
    /\ tableKs = 0..MaxK
    /\ \E n_ints_in_file \in 1..MaxInts, append_output \in BOOLEAN :
          /\ args = [n_fine_chans |-> MaxFine, n_ints_in_file |-> n_ints_in_file,
                     n_coarse_chan |-> 1, append_output |-> append_output]
          /\ header = [NAXIS1 |-> MaxFine]
          /\ find_doppler_instance = [append_output |-> append_output, n_coarse_chan |-> 1]
          /\ data_dict = DataDict(MaxFine, n_ints_in_file, 1)
    /\ Resolve(data_dict).pc = "idle"
    /\ pc = "idle"
    /\ error = "none"
    /\ readK = Resolve(data_dict).readK
    /\ dataloader = Resolve(data_dict).dataloader
    /\ prev = [n |-> 0, vector |-> <<>>]
    /\ constructs = 1
    /\ path_log \in {Absent, PreExisting}
    /\ path_dat \in {Absent, PreExisting}
    /\ callNo = 0
    /\ datAtEntry = Absent
    /\ callLoaded = FALSE
    /\ searchCount = 0
    /\ searchInput = NoInput
    /\ everLoaded = FALSE
    /\ lastDelivered = NoInput

\* self.dataloader.load(spectra), called on the finder's loader directly
Load(m) ==
    /\ pc = "idle"
    /\ dataloader' = DLLoad(dataloader, Matrix(m))
    /\ everLoaded' = TRUE
    /\ lastDelivered' = Matrix(m)
    /\ UNCHANGED <<pc, error, tableKs, objVars, fileVars, callVars>>

\* self.dataloader.load_file(path), called on the finder's loader directly
\* (on a path that does not open, stg.Frame raises and nothing changes)
LoadFile(p) ==
    /\ pc = "idle"
    /\ FrameOpens(p)
    /\ dataloader' = DLLoadFile(dataloader, p)
    /\ everLoaded' = TRUE
    /\ lastDelivered' = FrameData(p)
    /\ UNCHANGED <<pc, error, tableKs, objVars, fileVars, callVars>>

\* find_ET: self.dataloader.load(spectra), then on to _find_ET_common
FindET(m) ==
    /\ pc = "idle"
    /\ callNo < MaxCalls
    /\ callNo' = callNo + 1
    /\ datAtEntry' = path_dat
    /\ searchCount' = 0
    /\ dataloader' = DLLoad(dataloader, Matrix(m))
    /\ everLoaded' = TRUE
    /\ lastDelivered' = Matrix(m)
    /\ callLoaded' = TRUE
    /\ error' = "none"
    /\ pc' = "remove"
    /\ UNCHANGED <<tableKs, objVars, fileVars, searchInput>>

\* find_ET_from_file: self.dataloader.load_file(path), then on to
\* _find_ET_common unless stg.Frame raised
FindETFromFile(p) ==
    /\ pc = "idle"
    /\ callNo < MaxCalls
    /\ callNo' = callNo + 1
    /\ datAtEntry' = path_dat
    /\ searchCount' = 0
    /\ \/ /\ FrameOpens(p)
          /\ dataloader' = DLLoadFile(dataloader, p)
          /\ everLoaded' = TRUE
          /\ lastDelivered' = FrameData(p)
          /\ callLoaded' = TRUE
          /\ error' = "none"
          /\ pc' = "remove"
       \/ /\ ~FrameOpens(p)
          /\ callLoaded' = FALSE
          /\ error' = "FrameError"
          /\ pc' = "idle"
          /\ UNCHANGED <<dataloader, everLoaded, lastDelivered>>
    /\ UNCHANGED <<tableKs, objVars, fileVars, searchInput>>

\* _find_ET_common: os.remove(path_log) and os.remove(path_dat) when they exist
RemoveArtifacts ==
    /\ pc = "remove"
    /\ path_log' = Absent
    /\ path_dat' = Absent
    /\ pc' = "preamble"
    /\ UNCHANGED <<error, tableKs, objVars, dataloader, everLoaded, lastDelivered, callVars>>

\* _find_ET_common: open(path_log, "w") and the preamble, LogWriter(path_log),
\* FileWriter(path_dat, header), which creates path_dat and writes its header lines
WritePreamble ==
    /\ pc = "preamble"
    /\ path_log' = [exists |-> TRUE, writer |-> callNo, complete |-> FALSE]
    /\ path_dat' = [exists |-> TRUE, writer |-> callNo, complete |-> FALSE]
    /\ pc' = "search"
    /\ UNCHANGED <<error, tableKs, objVars, dataloader, everLoaded, lastDelivered, callVars>>

\* _find_ET_common: fd.search_coarse_channel(...), which reads dataloader.get()
\* and either returns after writing its hits or raises
SearchCoarseChannel ==
    /\ pc = "search"
    /\ searchCount' = searchCount + 1
    /\ searchInput' = DLGet(dataloader)[2]
    /\ \/ /\ path_dat' = [path_dat EXCEPT !.complete = TRUE]
          /\ pc' = "completion"
          /\ error' = "none"
       \/ /\ path_dat' = path_dat
          /\ pc' = "idle"
          /\ error' = "SearchError"
    /\ UNCHANGED <<tableKs, objVars, dataloader, everLoaded, lastDelivered,
                   path_log, callNo, datAtEntry, callLoaded>>

\* _find_ET_common: append the elapsed-time line to path_log and return
Completion ==
    /\ pc = "completion"
    /\ path_log' = [path_log EXCEPT !.complete = TRUE]
    /\ pc' = "idle"
    /\ UNCHANGED <<error, tableKs, objVars, dataloader, everLoaded, lastDelivered,
                   path_dat, callVars>>

\* Constructions only: geometry derivation and drift-index resolution
Next ==
    \E n_fine_chans \in 1..MaxFine, n_ints_in_file \in 1..MaxInts,
       n_coarse_chan \in 1..MaxCoarse, append_output \in BOOLEAN :
       Construct(n_fine_chans, n_ints_in_file, n_coarse_chan, append_output)

Spec == Init /\ [][Next]_vars

\* The calls made on a constructed finder
NextSession ==
    \/ \E m \in 1..MaxMatrix : Load(m)
    \/ \E p \in 0..MaxPath : LoadFile(p)
    \/ \E m \in 1..MaxMatrix : FindET(m)
    \/ \E p \in 0..MaxPath : FindETFromFile(p)
    \/ RemoveArtifacts
    \/ WritePreamble
    \/ SearchCoarseChannel
    \/ Completion

SpecSession == InitSession /\ [][NextSession]_vars

\* ------------------------------------------------------------------ claims
Constructed == args # NoArgs

IsPow2(x) == \E k \in 0..MaxInts : x = Pow2(k)

\* C1: after construction with n_ints_in_file = n >= 1, tsteps_valid = n and
\* tsteps is the smallest power of two that is >= n (1 gives 1, 16 gives 16,
\* 2000 gives 2048), so tsteps is a power of two and tsteps >= tsteps_valid >= 1.
C1_TstepsSmallestPow2 ==
    Constructed =>
        /\ data_dict.tsteps_valid = args.n_ints_in_file
        /\ data_dict.tsteps_valid >= 1
        /\ data_dict.tsteps = Tsteps(args.n_ints_in_file)
        /\ IsPow2(data_dict.tsteps)
        /\ data_dict.tsteps >= data_dict.tsteps_valid
        /\ \A k \in 0..MaxInts :
              Pow2(k) >= args.n_ints_in_file => Pow2(k) >= data_dict.tsteps
        /\ Tsteps(1) = 1 /\ Tsteps(16) = 16 /\ Tsteps(2000) = 2048

\* C1 witness: a construction whose integration count is padded (3 -> 4)
C1_Witness ==
    /\ Constructed
    /\ args.n_ints_in_file = 3
    /\ data_dict.tsteps = 4
    /\ data_dict.tsteps_valid = 3

\* C2 (as claimed): when n_fine_chans is not evenly divisible by n_coarse_chan
\* the construction fails; it never completes with a truncated fftlen.
C2_NonDivisibleFails ==
    (Constructed /\ args.n_fine_chans % args.n_coarse_chan # 0) => pc = "failed"

\* C3 (as claimed): in every geometry a construction returns, tdwidth equals
\* that geometry's fftlen plus shoulder_size * tsteps.
C3_TdwidthFromFftlen ==
    pc = "idle" =>
        data_dict.tdwidth = data_dict.fftlen + data_dict.shoulder_size * data_dict.tsteps

\* C4: when no table is shipped for k = log2(tsteps), construction fails at the
\* file check: no table has been read, no DataLoader (hence no drift-index
\* vector) exists, no search can be started on the result, and a construction
\* never reads a table other than the one for its own k.
C4_MissingTableFailsFast ==
    /\ (Constructed /\ DiaNum(data_dict) \notin tableKs) =>
          /\ pc = "failed"
          /\ error = "AssertionError"
          /\ readK = {}
          /\ ~dataloader.made
          /\ dataloader.drift_indices = <<>>
          /\ ~ENABLED (\E m \in 1..MaxMatrix : FindET(m))
          /\ ~ENABLED (\E p \in 0..MaxPath : FindETFromFile(p))
    /\ Constructed => readK \subseteq ({DiaNum(data_dict)} \cap tableKs)

\* C4 witness: a construction that failed for want of the table of its k
C4_Witness ==
    /\ pc = "failed"
    /\ error = "AssertionError"
    /\ DiaNum(data_dict) \notin tableKs
    /\ tableKs # {}

\* C5: with tsteps derived by the constructor, the row offset
\* tsteps_valid - 1 - floor(tsteps/2) is never negative and, when tsteps >= 2,
\* is less than tsteps/2; so a table of tsteps/2 >= 2 rows that was read never
\* makes the row selection fail, and the row is never counted from the end.
C5_RowOffsetInRange ==
    Constructed =>
        /\ RowOffset(data_dict) >= 0
        /\ data_dict.tsteps >= 2 => RowOffset(data_dict) < data_dict.tsteps \div 2
        /\ PyRow(DiaNum(data_dict), RowOffset(data_dict)) = RowOffset(data_dict)
        /\ (readK # {} /\ TableRows(DiaNum(data_dict)) >= 2) => error # "IndexError"

\* C5 witness: a completed construction that selected the last row of its table
C5_Witness ==
    /\ pc = "idle"
    /\ dataloader.made
    /\ RowOffset(data_dict) = TableRows(DiaNum(data_dict)) - 1
    /\ RowOffset(data_dict) >= 1

\* C6: whenever construction succeeds, the DataLoader's drift-index vector is
\* the first tsteps_valid columns of the selected table row, so it has exactly
\* tsteps_valid entries, and it equals the vector of the previous successful
\* construction with the same tsteps_valid (hence the same tsteps and table).
C6_VectorLength ==
    dataloader.made =>
        /\ Len(dataloader.drift_indices) = data_dict.tsteps_valid
        /\ \A i \in 1..data_dict.tsteps_valid :
              dataloader.drift_indices[i] =
                  GenFromTxt(DiaNum(data_dict))[RowOffset(data_dict) + 1][i]
        /\ prev.n = data_dict.tsteps_valid => prev.vector = dataloader.drift_indices

\* C6 witness: a second successful construction with the same pair, whose row
\* had to be truncated (tsteps_valid < tsteps)
C6_Witness ==
    /\ dataloader.made
    /\ prev.n = data_dict.tsteps_valid
    /\ data_dict.tsteps_valid < data_dict.tsteps
    /\ Len(dataloader.drift_indices) = data_dict.tsteps_valid

\* C7: after one or more loads (load and load_file in any order), get() returns
\* as spectra exactly the matrix the most recent completed load delivered, and
\* a search that has returned was given that matrix.
C7_SnapshotIsLatestLoad ==
    /\ everLoaded => DLGet(dataloader)[2] = lastDelivered
    /\ pc = "completion" => searchInput = lastDelivered

\* C7 witness: a file load following a search on a streamed matrix; the loader
\* holds the file's matrix, not the one the earlier search saw
C7_Witness ==
    /\ everLoaded
    /\ searchInput = Matrix(1)
    /\ lastDelivered = FrameData(1)
    /\ DLGet(dataloader)[2] = FrameData(1)

\* C8 (as claimed): when the search entry point is about to be called, the
\* artifact found at the .dat path on entry is gone if append_output is False
\* and is still in place if append_output is True.
C8_RemovalUnlessAppend ==
    (pc = "search" /\ datAtEntry.exists) =>
        IF find_doppler_instance.append_output
        THEN path_dat.exists /\ path_dat.writer = datAtEntry.writer
        ELSE ~(path_dat.exists /\ path_dat.writer = datAtEntry.writer)

\* C9 (as claimed): when a find_ET / find_ET_from_file call has aborted with an
\* error, the search was tried at most once and no .dat artifact exists at the
\* output path, neither a stale nor a partial one.
C9_AbortLeavesNoDat ==
    (pc = "idle" /\ error \in {"FrameError", "SearchError"}) =>
        /\ searchCount <= 1
        /\ ~path_dat.exists

\* C10: the loader starts with the placeholder spectra and any load replaces
\* it; within a find_ET / find_ET_from_file call the common part runs only
\* after that call's load completed, the search entry point is called at most
\* once per call, and what it gets is a loaded matrix, never the placeholder.
C10_SearchOnlyWhenLoaded ==
    /\ (dataloader.made /\ ~everLoaded) => dataloader.spectra = Placeholder
    /\ everLoaded => dataloader.spectra.kind = "matrix"
    /\ pc \in {"remove", "preamble", "search", "completion"} =>
          callLoaded /\ everLoaded
    /\ searchCount <= 1
    /\ searchCount = 1 => (callLoaded /\ searchInput.kind = "matrix")
    /\ searchInput # Placeholder

\* C10 witness: the search of a find_ET_from_file call has returned
C10_Witness ==
    /\ pc = "completion"
    /\ searchCount = 1
    /\ searchInput = FrameData(1)
    /\ callNo = 1

====
